---- MODULE Spec2Model ----
(***************************************************************************)
(* A model of rollup-plugin-hoist-import-deps (src/src/index.js).          *)
(*                                                                         *)
(* The plugin has five parts, each with a specification of its own:        *)
(*   SpecOptions    hoistImportDeps(options) and load(id): option          *)
(*                  defaulting, canonicalize, the emitted loader template  *)
(*   SpecTransform  transform(code, id): the per-unit rewrite              *)
(*   SpecDeps       getDeps(chunkName, bundle)                             *)
(*   SpecBundle     generateBundle(_, bundle): the finalize pass           *)
(*   SpecRuntime    the emitted template at run time: __loadDeps and       *)
(*                  preloadOrPrefetch on the browser's event loop          *)
(*                                                                         *)
(* JavaScript strings on which the code does character work (startsWith,   *)
(* endsWith, substring) are sequences of one-character strings.            *)
(***************************************************************************)
EXTENDS Integers, Sequences, FiniteSets, TLC

VARIABLES
    \* hoistImportDeps / load
    optionsIn,   \* the options object the caller passes
    options,     \* the options object after hoistImportDeps has normalised it
    ctor,        \* "new" | "ok" | "threw"
    loaded,      \* what load(id) last returned
    \* transform
    unit,        \* [id, code]: the source unit handed to transform
    tResult,     \* what transform returned
    tWarnings,   \* number of this.warn calls made by transform
    \* getDeps
    query,       \* the chunk name getDeps is asked about
    answer,      \* the answers for query, './'+query and query without '.js'
    \* generateBundle
    bundle,      \* the output bundle: file name -> chunk or asset
    runs,        \* how many times generateBundle has been called
    threw,       \* generateBundle ended with an exception
    warnings,    \* number of this.warn calls made by generateBundle
    \* the template at run time
    env,         \* the browser: document, relList support, fetch
    seen,        \* const seen = new Set()
    requests,    \* every resource request issued so far, in order
    idle,        \* callbacks handed to requestIdleCallback, not yet run
    calls        \* every __loadDeps call made so far, with what it returned

optVars == <<optionsIn, options, ctor, loaded>>
trVars  == <<unit, tResult, tWarnings>>
depVars == <<query, answer>>
bunVars == <<bundle, runs, threw, warnings>>
rtVars  == <<env, seen, requests, idle, calls>>
vars    == <<optVars, trVars, depVars, bunVars, rtVars>>

(***************************************************************************)
(* Bounds of the model.                                                    *)
(***************************************************************************)
MaxBaseUrlLen == 3   \* longest baseUrl option tried
MaxPieces     == 3   \* statements in a source unit
MaxStmts      == 2   \* statements in the code of an emitted chunk
MaxRuns       == 2   \* calls of generateBundle
MaxCalls      == 2   \* calls of __loadDeps

(***************************************************************************)
(* JavaScript strings and values.                                          *)
(***************************************************************************)
startsWith(s, p) == Len(s) >= Len(p) /\ SubSeq(s, 1, Len(p)) = p

endsWith(s, p) == Len(s) >= Len(p) /\ SubSeq(s, Len(s) - Len(p) + 1, Len(s)) = p

Clamp(i, n) == IF i < 0 THEN 0 ELSE IF i > n THEN n ELSE i

\* String.prototype.substring(a, b): both ends clamped to 0..length, swapped
\* when a > b; the characters at (0-based) a .. b-1.
substring(s, a, b) ==
    LET x == Clamp(a, Len(s))
        y == Clamp(b, Len(s))
        lo == IF x <= y THEN x ELSE y
        hi == IF x <= y THEN y ELSE x
    IN SubSeq(s, lo + 1, hi)

\* A JavaScript value: its type tag and, for a string, its characters.
Undefined == [t |-> "undefined", v |-> <<>>]
JSNull    == [t |-> "null", v |-> <<>>]
JSTrue    == [t |-> "boolean", v |-> <<"true">>]
JSFalse   == [t |-> "boolean", v |-> <<"false">>]
JSFunction == [t |-> "function", v |-> <<>>]
JSString(s) == [t |-> "string", v |-> s]
JSNumber(d) == [t |-> "number", v |-> d]

\* x != null
notNullish(x) == x.t \notin {"undefined", "null"}

\* ToBoolean(x)
truthy(x) ==
    CASE x.t = "boolean" -> x.v = <<"true">>
      [] x.t = "string" -> x.v # <<>>
      [] x.t = "number" -> x.v # <<"0">>
      [] x.t = "function" -> TRUE
      [] OTHER -> FALSE

VIRTUAL_ID_IMPORT == <<"preloaddeps:import">>

\* The text between the quotes of MARKER = '"__IMPORT_DEPS__"'.
MarkerText == <<"_","_","I","M","P","O","R","T","_","D","E","P","S","_","_">>

(***************************************************************************)
(* hoistImportDeps(options) and load(id).                                  *)
(***************************************************************************)
canonicalize(path) ==
    LET p1 == IF startsWith(path, <<"/">>) THEN substring(path, 1, Len(path)) ELSE path
    IN IF endsWith(p1, <<"/">>) THEN substring(p1, 0, Len(p1) - 1) ELSE p1

\* The value stored in options.setAnonymousCrossOrigin (lines 21-22: the
\* right-hand side reads options.anononymousCrossOrigin, a property callers
\* do not set).
defaultCrossOrigin(o) ==
    IF notNullish(o.setAnonymousCrossOrigin) THEN o.anononymousCrossOrigin ELSE JSTrue

\* The options object as lines 19-23 leave it.
normalizeOptions(o) ==
    [method |-> IF notNullish(o.method) THEN o.method ELSE JSString(<<"preload">>),
     setAnonymousCrossOrigin |-> defaultCrossOrigin(o),
     anononymousCrossOrigin |-> o.anononymousCrossOrigin,
     baseUrl |-> IF o.baseUrl.t = "string" THEN JSString(canonicalize(o.baseUrl.v))
                 ELSE JSNull,
     customPreload |-> o.customPreload]

\* Lines 24-28: the configuration error.
optionsInvalid(o) ==
    o.method = JSString(<<"custom">>) /\ o.customPreload.t # "function"

BaseUrlChars == {"/", "a"}

RECURSIVE StringsUpTo(_, _)
StringsUpTo(chars, n) ==
    IF n = 0 THEN {<<>>}
    ELSE LET shorter == StringsUpTo(chars, n - 1)
         IN shorter \cup {Append(s, c) : s \in shorter, c \in chars}

OptionInputs ==
    [method : {Undefined, JSString(<<"preload">>), JSString(<<"import">>),
               JSString(<<"custom">>)},
     setAnonymousCrossOrigin : {Undefined, JSTrue, JSFalse},
     anononymousCrossOrigin : {Undefined},
     baseUrl : {Undefined, JSNumber(<<"1">>)}
               \cup {JSString(s) : s \in StringsUpTo(BaseUrlChars, MaxBaseUrlLen)},
     customPreload : {Undefined, JSFunction}]

NoOptions ==
    [method |-> Undefined, setAnonymousCrossOrigin |-> Undefined,
     anononymousCrossOrigin |-> Undefined, baseUrl |-> Undefined,
     customPreload |-> Undefined]

\* The lines of the template that depend on the options (lines 94-97).
templateOf(o) ==
    [isNull |-> FALSE,
     rewrite |-> notNullish(o.baseUrl),
     base |-> o.baseUrl.v,
     crossOrigin |-> truthy(o.setAnonymousCrossOrigin)]

NullResult == [isNull |-> TRUE, rewrite |-> FALSE, base |-> <<>>, crossOrigin |-> FALSE]

\* load(id), lines 66-133.
loadHook(id, o) == IF id = VIRTUAL_ID_IMPORT THEN templateOf(o) ELSE NullResult

HoistImportDeps ==
    /\ ctor = "new"
    /\ options' = normalizeOptions(optionsIn)
    /\ ctor' = IF optionsInvalid(normalizeOptions(optionsIn)) THEN "threw" ELSE "ok"
    /\ UNCHANGED <<optionsIn, loaded, trVars, depVars, bunVars, rtVars>>

Load ==
    /\ ctor = "ok"
    /\ \E id \in {VIRTUAL_ID_IMPORT, <<"./a.js">>} :
          loaded' = [id |-> id, result |-> loadHook(id, options)]
    /\ UNCHANGED <<optionsIn, options, ctor, trVars, depVars, bunVars, rtVars>>

NotLoaded == [id |-> <<>>, result |-> NullResult]

(***************************************************************************)
(* transform(code, id).                                                    *)
(*                                                                         *)
(* A unit's code is a sequence of tokens; offsets are token boundaries     *)
(* (0 before the first token).  The tokens and the text each stands for:   *)
(*   "import"  the keyword            "("  ")"  ";"   themselves           *)
(*   "ws"      white space            "cmt"     a comment  /* c */         *)
(*   "str"     a string literal 'x'   "id"      an identifier              *)
(*   "cmtI"    a comment whose text is  /* import(x) */                    *)
(***************************************************************************)
GapTokens == {"ws", "cmt", "cmtI"}

LOADDEPS_OPEN  == "__loadDeps("
MARKER_CLOSE   == ", \"__IMPORT_DEPS__\")"
LOADER_IMPORT  == "import {__loadDeps} from 'preloaddeps:import';\n"

\* const firstpass = /import\s*\([^\)]+\)/ ; code.match(firstpass), on tokens:
\* "import", white space only, "(", one character or more that is not ")",
\* then ")".  Only ")" and "cmtI" hold a ")" character.
firstpass(toks) ==
    \E i \in 1..Len(toks) :
       \/ toks[i] = "cmtI"
       \/ /\ toks[i] = "import"
          /\ \E j \in (i + 1)..Len(toks) :
                /\ \A k \in (i + 1)..(j - 1) : toks[k] = "ws"
                /\ toks[j] = "("
                /\ j + 1 <= Len(toks)
                /\ toks[j + 1] # ")"
                /\ \E k \in (j + 1)..Len(toks) : toks[k] \in {")", "cmtI"}

\* The parser this.parse (acorn), for the grammar
\*   Program ::= (Expr ";")*     Expr ::= "str" | "id" | "import" "(" Expr ")"
\* with white space and comments allowed between any two tokens.
RECURSIVE skipGap(_, _)
skipGap(toks, i) ==
    IF i <= Len(toks) /\ toks[i] \in GapTokens THEN skipGap(toks, i + 1) ELSE i

ParseFail == [ok |-> FALSE, next |-> 0, sites |-> <<>>]

\* sites: the ImportExpression nodes in the order walk enters them, each with
\* node.start and node.end.
RECURSIVE parseExpr(_, _)
parseExpr(toks, i) ==
    IF i > Len(toks) THEN ParseFail
    ELSE IF toks[i] \in {"str", "id"} THEN [ok |-> TRUE, next |-> i + 1, sites |-> <<>>]
    ELSE IF toks[i] # "import" THEN ParseFail
    ELSE LET j == skipGap(toks, i + 1)
         IN IF j > Len(toks) \/ toks[j] # "(" THEN ParseFail
            ELSE LET inner == parseExpr(toks, skipGap(toks, j + 1))
                     m == skipGap(toks, inner.next)
                 IN IF ~inner.ok \/ m > Len(toks) \/ toks[m] # ")" THEN ParseFail
                    ELSE [ok |-> TRUE, next |-> m + 1,
                          sites |-> <<[start |-> i - 1, end |-> m]>> \o inner.sites]

RECURSIVE parseProgram(_, _)
parseProgram(toks, i) ==
    LET s == skipGap(toks, i)
    IN IF s > Len(toks) THEN [ok |-> TRUE, next |-> s, sites |-> <<>>]
       ELSE LET e == parseExpr(toks, s)
                j == skipGap(toks, e.next)
            IN IF ~e.ok \/ j > Len(toks) \/ toks[j] # ";" THEN ParseFail
               ELSE LET rest == parseProgram(toks, j + 1)
                    IN IF ~rest.ok THEN ParseFail
                       ELSE [ok |-> TRUE, next |-> rest.next,
                             sites |-> e.sites \o rest.sites]

parse(toks) == parseProgram(toks, 1)

\* MagicString: the original, the text inserted at each offset to the left
\* (outro of the piece ending there) and to the right (intro of the piece
\* starting there), and the text prepended to the whole.
MagicString(toks) ==
    [original |-> toks,
     left |-> [i \in 0..Len(toks) |-> <<>>],
     right |-> [i \in 0..Len(toks) |-> <<>>],
     intro |-> <<>>]

prependLeft(ms, index, content) ==
    [ms EXCEPT !.left[index] = <<content>> \o @]

appendRight(ms, index, content) ==
    [ms EXCEPT !.right[index] = @ \o <<content>>]

prepend(ms, content) == [ms EXCEPT !.intro = <<content>> \o @]

RECURSIVE msText(_, _)
msText(ms, i) ==
    IF i > Len(ms.original) THEN <<>>
    ELSE ms.left[i] \o ms.right[i]
         \o (IF i = 0 THEN <<>> ELSE <<ms.original[i]>>) \o msText(ms, i + 1)

msToString(ms) == ms.intro \o msText(ms, 0)

\* The walk of lines 174-182 over the ImportExpression nodes.
RECURSIVE wrapSites(_, _)
wrapSites(ms, sites) ==
    IF sites = <<>> THEN ms
    ELSE wrapSites(appendRight(prependLeft(ms, Head(sites).start, LOADDEPS_OPEN),
                               Head(sites).end, MARKER_CLOSE),
                   Tail(sites))

\* transform(code, id), lines 149-193: what it returns and how often it warns.
transform(code, id) ==
    IF id = VIRTUAL_ID_IMPORT THEN [done |-> TRUE, isNull |-> TRUE, code |-> <<>>, warned |-> 0]
    ELSE IF ~firstpass(code) THEN [done |-> TRUE, isNull |-> TRUE, code |-> <<>>, warned |-> 0]
    ELSE LET ast == parse(code)
         IN IF ~ast.ok THEN [done |-> TRUE, isNull |-> TRUE, code |-> <<>>, warned |-> 1]
            ELSE IF ast.sites = <<>>
                 THEN [done |-> TRUE, isNull |-> TRUE, code |-> <<>>, warned |-> 0]
            ELSE [done |-> TRUE, isNull |-> FALSE,
                  code |-> msToString(prepend(wrapSites(MagicString(code), ast.sites),
                                              LOADER_IMPORT)),
                  warned |-> 0]

\* The statements source units are built from.
Pieces ==
    { <<"id", ";">>,
      <<"import", "(", "str", ")", ";">>,
      <<"import", "ws", "(", "ws", "str", ")", ";">>,
      <<"import", "cmt", "(", "str", ")", ";">>,
      <<"import", "(", "import", "(", "str", ")", ")", ";">>,
      <<"cmtI", "id", ";">>,
      <<"import", "(", ";">>,
      <<"import", "(", ")", ";">> }

RECURSIVE UnitsUpTo(_)
UnitsUpTo(n) ==
    IF n = 0 THEN {<<>>}
    ELSE LET shorter == UnitsUpTo(n - 1)
         IN shorter \cup {u \o p : u \in shorter, p \in Pieces}

NotTransformed == [done |-> FALSE, isNull |-> TRUE, code |-> <<>>, warned |-> 0]

Transform ==
    /\ ~tResult.done
    /\ \E r \in {transform(unit.code, unit.id)} :
          /\ tResult' = r
          /\ tWarnings' = tWarnings + r.warned
    /\ UNCHANGED <<unit, optVars, depVars, bunVars, rtVars>>

(***************************************************************************)
(* getDeps(chunkName, bundle).                                             *)
(***************************************************************************)
DotJs    == <<".", "j", "s">>
DotSlash == <<".", "/">>

A_JS  == <<"a", ".", "j", "s">>
B_JS  == <<"b", ".", "j", "s">>
C_JS  == <<"c", ".", "j", "s">>
D_JS  == <<"d", ".", "j", "s">>
E_JS  == <<"e", ".", "j", "s">>
S_CSS == <<"s", ".", "c", "s", "s">>

\* Mutants of depLiteral: the extension is never removed; the extension is
\* removed whatever the method.
depLiteralKeepsJs(s, amd, o) == DotSlash \o s

depLiteralIgnoresMethod(s, amd, o) ==
    DotSlash \o (IF amd THEN substring(s, 0, Len(s) - 3) ELSE s)

\* A dependency as getDeps writes it: the text between the quotes of
\* `"./${...}"` (line 47).
depLiteral(s, amd, o) ==
    DotSlash \o (IF amd /\ o.method = JSString(<<"import">>)
                 THEN substring(s, 0, Len(s) - 3) ELSE s)

\* getDeps, lines 32-53.  chunkName is a JavaScript value; the result is the
\* list of quoted literals that join(',') writes, in order, or a TypeError
\* (chunkName has no startsWith, or the file found has no imports array).
getDeps(chunkName, bnd, o) ==
    IF chunkName.t # "string" THEN [threw |-> TRUE, deps |-> <<>>]
    ELSE LET stripped == IF startsWith(chunkName.v, DotSlash)
                         THEN substring(chunkName.v, 2, Len(chunkName.v))
                         ELSE chunkName.v
             amd == ~endsWith(stripped, DotJs)
             name == IF amd THEN stripped \o DotJs ELSE stripped
         IN IF name \notin DOMAIN bnd.files THEN [threw |-> FALSE, deps |-> <<>>]
            ELSE IF bnd.files[name].type # "chunk" THEN [threw |-> TRUE, deps |-> <<>>]
            ELSE [threw |-> FALSE,
                  deps |-> [i \in 1..Len(bnd.files[name].imports) |->
                               depLiteral(bnd.files[name].imports[i], amd, o)]]

(***************************************************************************)
(* The code of an emitted chunk, as this.parse sees it: a sequence of      *)
(* statements, each a call with its arguments, a variable declarator with  *)
(* its initialiser, or text that does not parse.  An expression is         *)
(*   Literal           lits = <<the literal>>                              *)
(*   Identifier        lits = <<>>                                         *)
(*   ImportExpression  lits = <<its source>> when the source is a literal  *)
(*   Wrapped           the construct a non-ESM format renders a dynamic    *)
(*                     import as; lits = the literals inside it, in the    *)
(*                     order walk enters them (none is the marker: rollup  *)
(*                     writes them with single quotes)                     *)
(***************************************************************************)
Lit(value, quote) == [value |-> value, quote |-> quote]

Literal(value, quote) == [type |-> "Literal", lits |-> <<Lit(value, quote)>>]
Identifier == [type |-> "Identifier", lits |-> <<>>]
ImportExpression(lits) == [type |-> "ImportExpression", lits |-> lits]
Wrapped(lits) == [type |-> "Wrapped", lits |-> lits]

CallExpression(args) == [type |-> "CallExpression", children |-> args]
VariableDeclarator(init) == [type |-> "VariableDeclarator", children |-> <<init>>]
SyntaxError == [type |-> "SyntaxError", children |-> <<>>]

\* node.raw === MARKER
isMarker(lit) == lit.quote = "dq" /\ lit.value = JSString(MarkerText)

MarkerLiteral == Literal(JSString(MarkerText), "dq")

\* `"${importChunkName}"`, read back by the parser: a double-quoted string.
quoted(value) == Literal(JSString(value.v), "dq")

\* Mutant of importChunkNameOf: the inner walk stops at the first literal.
importChunkNameFirst(importExpr) ==
    IF importExpr.type = "ImportExpression"
    THEN IF importExpr.lits # <<>> THEN importExpr.lits[1].value ELSE Undefined
    ELSE IF importExpr.lits # <<>> THEN importExpr.lits[1].value
    ELSE JSNull

\* Lines 240-252: the load target recovered from the call's first argument.
importChunkNameOf(importExpr) ==
    IF importExpr.type = "ImportExpression"
    THEN IF importExpr.lits # <<>> THEN importExpr.lits[1].value ELSE Undefined
    ELSE IF importExpr.lits # <<>> THEN importExpr.lits[Len(importExpr.lits)].value
    ELSE JSNull

NoEdits(n) == [i \in 1..n |-> [set |-> FALSE, text |-> <<>>]]

\* Lines 234-257 for a marker literal that is argument k of the call: the
\* overwrites made (edits: per argument, the text that replaces it).
enterMarker(args, k, edits, bnd, o) ==
    LET importChunkName == importChunkNameOf(args[1])
        deps == getDeps(importChunkName, bnd, o)
    IN IF ~truthy(importChunkName) THEN [threw |-> FALSE, edits |-> edits]
       ELSE IF deps.threw THEN [threw |-> TRUE, edits |-> edits]
       ELSE [threw |-> FALSE,
             edits |-> [[edits EXCEPT ![1] = [set |-> TRUE,
                                              text |-> <<quoted(importChunkName)>>]]
                           EXCEPT ![k] = [set |-> TRUE,
                                          text |-> [i \in 1..Len(deps.deps) |->
                                                      Literal(JSString(deps.deps[i]), "dq")]]]]

\* A marker literal whose parent has no arguments array (an ImportExpression's
\* source, a declarator's initialiser): parent.arguments[0] is a TypeError.
strayMarker(stmt, k) ==
    LET e == stmt.children[k]
    IN \/ e.type = "ImportExpression" /\ e.lits # <<>> /\ isMarker(e.lits[1])
       \/ stmt.type # "CallExpression" /\ e.type = "Literal" /\ isMarker(e.lits[1])

\* walk over the children of one statement, from child k on.
RECURSIVE walkChildren(_, _, _, _, _)
walkChildren(stmt, k, edits, bnd, o) ==
    IF k > Len(stmt.children) THEN [threw |-> FALSE, edits |-> edits]
    ELSE IF strayMarker(stmt, k) THEN [threw |-> TRUE, edits |-> edits]
    ELSE IF stmt.children[k].type = "Literal" /\ isMarker(stmt.children[k].lits[1])
    THEN LET r == enterMarker(stmt.children, k, edits, bnd, o)
         IN IF r.threw THEN r ELSE walkChildren(stmt, k + 1, r.edits, bnd, o)
    ELSE walkChildren(stmt, k + 1, edits, bnd, o)

RECURSIVE Flatten(_)
Flatten(ss) == IF ss = <<>> THEN <<>> ELSE Head(ss) \o Flatten(Tail(ss))

\* magicString.toString() for one statement, as the parser reads it back:
\* each overwritten argument replaced by its text.  An argument replaced by
\* the empty text leaves `f(a, )` or `f()` when it is the last one, and text
\* that does not parse (`f(, )`) otherwise.
rewritten(stmt, edits) ==
    LET n == Len(stmt.children)
        text == [i \in 1..n |-> IF edits[i].set THEN edits[i].text
                                ELSE <<stmt.children[i]>>]
    IN IF \E i \in 1..(n - 1) : text[i] = <<>> THEN SyntaxError
       ELSE [type |-> stmt.type, children |-> Flatten(text)]

\* Lines 229-261 for the statements of one chunk, in order.
RECURSIVE walkBody(_, _, _)
walkBody(body, bnd, o) ==
    IF body = <<>> THEN [threw |-> FALSE, body |-> <<>>]
    ELSE LET r == walkChildren(Head(body), 1, NoEdits(Len(Head(body).children)), bnd, o)
         IN IF r.threw THEN [threw |-> TRUE, body |-> <<>>]
            ELSE LET rest == walkBody(Tail(body), bnd, o)
                 IN IF rest.threw THEN rest
                    ELSE [threw |-> FALSE,
                          body |-> <<rewritten(Head(body), r.edits)>> \o rest.body]

parses(code) == \A i \in 1..Len(code) : code[i].type # "SyntaxError"

\* Line 210: the chunks generateBundle looks at.
skipped(file) == file.type # "chunk" \/ Len(file.dynamicImports) = 0

\* generateBundle, lines 207-265, from the i-th key of the bundle on.
RECURSIVE generateBundleFrom(_, _, _, _)
generateBundleFrom(i, bnd, o, warned) ==
    IF i > Len(bnd.keys) THEN [bundle |-> bnd, threw |-> FALSE, warned |-> warned]
    ELSE LET chunk == bnd.files[bnd.keys[i]]
         IN IF skipped(chunk) THEN generateBundleFrom(i + 1, bnd, o, warned)
            ELSE IF ~parses(chunk.code) THEN generateBundleFrom(i + 1, bnd, o, warned + 1)
            ELSE LET r == walkBody(chunk.code, bnd, o)
                 IN IF r.threw THEN [bundle |-> bnd, threw |-> TRUE, warned |-> warned]
                    ELSE generateBundleFrom(
                             i + 1,
                             [bnd EXCEPT !.files[bnd.keys[i]].code = r.body],
                             o, warned)

generateBundle(bnd, o) == generateBundleFrom(1, bnd, o, 0)

(***************************************************************************)
(* The bundles tried: entry chunk a.js with the code under test, its       *)
(* dynamic-import target b.js, the chunks c.js and d.js that b.js may      *)
(* import statically, an asset, and a second chunk e.js with one site.     *)
(***************************************************************************)
sq(s) == Lit(JSString(s), "sq")

FirstArguments ==
    { ImportExpression(<<sq(DotSlash \o B_JS)>>),
      ImportExpression(<<>>),
      ImportExpression(<<sq(MarkerText)>>),
      ImportExpression(<<Lit(JSString(MarkerText), "dq")>>),
      ImportExpression(<<Lit(JSNumber(<<"5">>), "none")>>),
      Wrapped(<<sq(DotSlash \o <<"b">>)>>),
      Wrapped(<<sq(DotSlash \o <<"e">>), sq(DotSlash \o <<"d">>)>>),
      Wrapped(<<>>) }

Statements ==
    {CallExpression(<<f, MarkerLiteral>>) : f \in FirstArguments}
    \cup { CallExpression(<<Identifier, MarkerLiteral>>),
           VariableDeclarator(MarkerLiteral),
           VariableDeclarator(Literal(JSString(<<"x">>), "sq")),
           SyntaxError }

RECURSIVE BodiesUpTo(_)
BodiesUpTo(n) ==
    IF n = 0 THEN {<<>>}
    ELSE LET shorter == BodiesUpTo(n - 1)
         IN shorter \cup {Append(b, s) : b \in shorter, s \in Statements}

ImportLists == {<<>>, <<C_JS>>, <<C_JS, D_JS>>, <<D_JS, C_JS>>, <<C_JS, C_JS>>}

Chunk(dynamicImports, imports, code) ==
    [type |-> "chunk", dynamicImports |-> dynamicImports, imports |-> imports,
     code |-> code]

Asset == [type |-> "asset", dynamicImports |-> <<>>, imports |-> <<>>, code |-> <<>>]

BundleOf(body, bImports) ==
    [keys |-> <<A_JS, B_JS, C_JS, D_JS, S_CSS, E_JS>>,
     files |-> [n \in {A_JS, B_JS, C_JS, D_JS, S_CSS, E_JS} |->
        CASE n = A_JS -> Chunk(<<B_JS>>, <<>>, body)
          [] n = B_JS -> Chunk(<<>>, bImports, <<>>)
          [] n = S_CSS -> Asset
          [] n = E_JS -> Chunk(<<B_JS>>, <<D_JS>>,
                               <<CallExpression(<<ImportExpression(<<sq(DotSlash \o B_JS)>>),
                                                  MarkerLiteral>>)>>)
          [] OTHER -> Chunk(<<>>, <<>>, <<>>)]]

Methods == {<<"preload">>, <<"import">>, <<"custom">>}

\* The options of a plugin constructed with method m and nothing else set
\* but, for 'custom', the function it needs.
OptionsWith(m) ==
    normalizeOptions([NoOptions EXCEPT !.method = JSString(m),
                                       !.customPreload = JSFunction])

GenerateBundle ==
    /\ runs < MaxRuns
    /\ ~threw
    /\ \E r \in {generateBundle(bundle, options)} :
          /\ bundle' = r.bundle
          /\ threw' = r.threw
          /\ warnings' = warnings + r.warned
    /\ runs' = runs + 1
    /\ UNCHANGED <<optVars, trVars, depVars, rtVars>>

\* The names getDeps is asked about.
QueryNames ==
    { B_JS, E_JS, C_JS, <<"x", ".", "j", "s">>, <<"b">>, DotSlash \o B_JS,
      B_JS \o DotJs, S_CSS }

withoutJs(x) == IF endsWith(x, DotJs) THEN substring(x, 0, Len(x) - 3) ELSE x

NoAnswer == [done |-> FALSE, plain |-> <<>>, prefixed |-> <<>>, extless |-> <<>>]

AskDeps ==
    /\ ~answer.done
    /\ answer' = [done |-> TRUE,
                  plain |-> getDeps(JSString(query), bundle, options).deps,
                  prefixed |-> getDeps(JSString(DotSlash \o query), bundle, options).deps,
                  extless |-> getDeps(JSString(withoutJs(query)), bundle, options).deps]
    /\ UNCHANGED <<query, optVars, trVars, bunVars, rtVars>>

(***************************************************************************)
(* The loader template at run time (lines 72-130).                         *)
(*                                                                         *)
(* env.browser: window and document exist; env.supports: the rel values    *)
(* el.relList.supports accepts; env.hasFetch: window.fetch != null.        *)
(* A request is a link element appended to document.head or a fetch / XHR  *)
(* sent; it is pending until the browser reports its outcome.              *)
(***************************************************************************)
\* Mutant of seenHas: the seen-set is not consulted.
seenHasNever(s, dep) == FALSE

\* seen.has(dep), line 86
seenHas(s, dep) == dep \in s

\* Line 94: the href of the link element.
hrefOf(dep, o) ==
    IF notNullish(o.baseUrl) THEN <<"/">> \o o.baseUrl.v \o <<"/">> \o substring(dep, 2, Len(dep))
    ELSE dep

Request(dep, href, via) == [key |-> dep, href |-> href, via |-> via, state |-> "pending"]

\* preloadOrPrefetch(dep, method), lines 85-120, on st = [seen, requests, idle]:
\* the state it leaves and the promise it returns.
preloadOrPrefetch(st, dep, method, e, o) ==
    IF seenHas(st.seen, dep)
    THEN [st |-> st, promise |-> [kind |-> "resolved", key |-> dep]]
    ELSE LET s1 == [st EXCEPT !.seen = @ \cup {dep}]
         IN IF method \in e.supports
            THEN [st |-> [s1 EXCEPT !.requests = Append(@, Request(dep, hrefOf(dep, o), "link"))],
                  promise |-> [kind |-> "request", key |-> dep]]
            ELSE IF method = "preload"
            THEN [st |-> [s1 EXCEPT !.requests =
                             Append(@, Request(dep, dep, IF e.hasFetch THEN "fetch" ELSE "xhr"))],
                  promise |-> [kind |-> "request", key |-> dep]]
            ELSE [st |-> [s1 EXCEPT !.idle = Append(@, dep)],
                  promise |-> [kind |-> "request", key |-> dep]]

\* Line 122
methodOf(e, hoistPrefetch) == IF e.browser /\ hoistPrefetch THEN "prefetch" ELSE "preload"

\* Line 125
withJs(dep) == IF ~endsWith(dep, DotJs) THEN dep \o DotJs ELSE dep

\* Lines 124-127
RECURSIVE hintDeps(_, _, _, _, _)
hintDeps(st, deps, method, e, o) ==
    IF deps = <<>> THEN st
    ELSE hintDeps(preloadOrPrefetch(st, withJs(Head(deps)), method, e, o).st,
                  Tail(deps), method, e, o)

\* Mutant of baseLoad: the base target is only ever hinted.
baseLoadHintOnly(method) == "preloadOrPrefetch"

\* Line 129: how the base target is loaded.
baseLoad(method) == IF method = "preload" THEN "import" ELSE "preloadOrPrefetch"

\* __loadDeps(baseImport, ...deps), lines 121-130.
loadDeps(st, baseImport, deps, hoistPrefetch, e, o) ==
    LET method == methodOf(e, hoistPrefetch)
        s1 == IF e.browser THEN hintDeps(st, deps, method, e, o) ELSE st
    IN IF baseLoad(method) = "import"
       THEN [st |-> s1, promise |-> [kind |-> "import", key |-> baseImport]]
       ELSE preloadOrPrefetch(s1, baseImport, method, e, o)

RtState == [seen |-> seen, requests |-> requests, idle |-> idle]

RtBases == {DotSlash \o B_JS, DotSlash \o C_JS}

RtDepLists ==
    { <<>>, <<DotSlash \o C_JS>>, <<DotSlash \o <<"c">>>>,
      <<DotSlash \o C_JS, DotSlash \o D_JS>> }

Envs ==
    { [browser |-> FALSE, supports |-> {}, hasFetch |-> FALSE],
      [browser |-> TRUE, supports |-> {"preload", "prefetch"}, hasFetch |-> TRUE],
      [browser |-> TRUE, supports |-> {}, hasFetch |-> TRUE],
      [browser |-> TRUE, supports |-> {}, hasFetch |-> FALSE] }

failedKeys == {requests[i].key : i \in {j \in 1..Len(requests) : requests[j].state = "failed"}}

\* One call of __loadDeps by the page.  failedBefore and hoistPrefetch are
\* kept in the log of calls for the properties below.
LoadDeps ==
    /\ Len(calls) < MaxCalls
    /\ \E base \in RtBases, deps \in RtDepLists, hoistPrefetch \in BOOLEAN :
          \E r \in {loadDeps(RtState, base, deps, hoistPrefetch, env, options)} :
             /\ seen' = r.st.seen
             /\ requests' = r.st.requests
             /\ idle' = r.st.idle
             /\ calls' = Append(calls, [base |-> base, deps |-> deps,
                                        hoistPrefetch |-> hoistPrefetch,
                                        promise |-> r.promise,
                                        failedBefore |-> failedKeys])
    /\ UNCHANGED <<env, optVars, trVars, depVars, bunVars>>

\* The idle callback of line 116 runs: fetchFn() sends the request.
IdleCallback ==
    /\ idle # <<>>
    /\ requests' = Append(requests,
                          Request(Head(idle), Head(idle),
                                  IF env.hasFetch THEN "fetch" ELSE "xhr"))
    /\ idle' = Tail(idle)
    /\ UNCHANGED <<env, seen, calls, optVars, trVars, depVars, bunVars>>

\* onload (link), the fetch promise fulfilled, or XHR onload with status 200.
RequestSucceeds ==
    /\ \E i \in 1..Len(requests) :
          /\ requests[i].state = "pending"
          /\ requests' = [requests EXCEPT ![i].state = "ok"]
    /\ UNCHANGED <<env, seen, idle, calls, optVars, trVars, depVars, bunVars>>

\* onerror (link), the fetch promise rejected, or XHR onload with another status.
RequestFails ==
    /\ \E i \in 1..Len(requests) :
          /\ requests[i].state = "pending"
          /\ requests' = [requests EXCEPT ![i].state = "failed"]
    /\ UNCHANGED <<env, seen, idle, calls, optVars, trVars, depVars, bunVars>>

(***************************************************************************)
(* The specifications.                                                     *)
(***************************************************************************)
OptionsIdle ==
    /\ optionsIn = NoOptions
    /\ options = normalizeOptions(NoOptions)
    /\ ctor = "ok"
    /\ loaded = NotLoaded

TransformIdle ==
    /\ unit = [id |-> A_JS, code |-> <<>>]
    /\ tResult = NotTransformed
    /\ tWarnings = 0

DepsIdle ==
    /\ query = <<>>
    /\ answer = NoAnswer

BundleIdle ==
    /\ bundle = BundleOf(<<>>, <<>>)
    /\ runs = 0
    /\ threw = FALSE
    /\ warnings = 0

RuntimeIdle ==
    /\ env = [browser |-> FALSE, supports |-> {}, hasFetch |-> FALSE]
    /\ seen = {}
    /\ requests = <<>>
    /\ idle = <<>>
    /\ calls = <<>>

InitOptions ==
    /\ optionsIn \in OptionInputs
    /\ options = optionsIn
    /\ ctor = "new"
    /\ loaded = NotLoaded
    /\ TransformIdle /\ DepsIdle /\ BundleIdle /\ RuntimeIdle

NextOptions == HoistImportDeps \/ Load

SpecOptions == InitOptions /\ [][NextOptions]_vars

InitTransform ==
    /\ unit \in [id : {A_JS, VIRTUAL_ID_IMPORT}, code : UnitsUpTo(MaxPieces)]
    /\ tResult = NotTransformed
    /\ tWarnings = 0
    /\ OptionsIdle /\ DepsIdle /\ BundleIdle /\ RuntimeIdle

NextTransform == Transform

SpecTransform == InitTransform /\ [][NextTransform]_vars

InitDeps ==
    /\ query \in QueryNames
    /\ answer = NoAnswer
    /\ \E m \in Methods : options = OptionsWith(m)
    /\ optionsIn = NoOptions /\ ctor = "ok" /\ loaded = NotLoaded
    /\ \E l \in ImportLists : bundle = BundleOf(<<>>, l)
    /\ runs = 0 /\ threw = FALSE /\ warnings = 0
    /\ TransformIdle /\ RuntimeIdle

NextDeps == AskDeps

SpecDeps == InitDeps /\ [][NextDeps]_vars

InitBundle ==
    /\ \E m \in Methods : options = OptionsWith(m)
    /\ optionsIn = NoOptions /\ ctor = "ok" /\ loaded = NotLoaded
    /\ \E body \in BodiesUpTo(MaxStmts), l \in ImportLists : bundle = BundleOf(body, l)
    /\ runs = 0 /\ threw = FALSE /\ warnings = 0
    /\ TransformIdle /\ DepsIdle /\ RuntimeIdle

NextBundle == GenerateBundle

SpecBundle == InitBundle /\ [][NextBundle]_vars

InitRuntime ==
    /\ env \in Envs
    /\ seen = {} /\ requests = <<>> /\ idle = <<>> /\ calls = <<>>
    /\ \E b \in {Undefined, JSString(<<"c", "d", "n">>)} :
          options = normalizeOptions([NoOptions EXCEPT !.baseUrl = b])
    /\ optionsIn = NoOptions /\ ctor = "ok" /\ loaded = NotLoaded
    /\ TransformIdle /\ DepsIdle /\ BundleIdle

NextRuntime == LoadDeps \/ IdleCallback \/ RequestSucceeds \/ RequestFails

SpecRuntime == InitRuntime /\ [][NextRuntime]_vars


(***************************************************************************)
(* Properties.                                                             *)
(***************************************************************************)
Count(seq, x) == Cardinality({i \in 1..Len(seq) : seq[i] = x})

\* C1: a unit other than the virtual loader unit that parses and holds N
\* ImportExpression sites comes back unchanged (null) when N = 0, and for
\* N >= 1 comes back with exactly N `__loadDeps(` openings, N marker
\* closings and one loader import statement, which is its first line.
C1_TransformWrapsEverySite ==
    (tResult.done /\ unit.id # VIRTUAL_ID_IMPORT /\ parse(unit.code).ok) =>
        LET N == Len(parse(unit.code).sites)
        IN /\ N = 0 => tResult.isNull
           /\ N >= 1 => /\ ~tResult.isNull
                        /\ Count(tResult.code, LOADDEPS_OPEN) = N
                        /\ Count(tResult.code, MARKER_CLOSE) = N
                        /\ Count(tResult.code, LOADER_IMPORT) = 1
                        /\ Head(tResult.code) = LOADER_IMPORT

\* A site as transform leaves it and code generation renders it: a call whose
\* first argument is the dynamic import (or what the output format made of
\* it) and whose second argument is the marker.
IsSite(stmt) ==
    /\ stmt.type = "CallExpression"
    /\ Len(stmt.children) = 2
    /\ stmt.children[1].type \in {"ImportExpression", "Wrapped"}
    /\ stmt.children[2] = MarkerLiteral

\* The static imports of the chunk a load target T names in the graph.
TargetImports(T, bnd) ==
    LET stripped == IF startsWith(T, DotSlash) THEN SubSeq(T, 3, Len(T)) ELSE T
        name == IF endsWith(stripped, DotJs) THEN stripped ELSE stripped \o DotJs
    IN IF name \in DOMAIN bnd.files THEN bnd.files[name].imports ELSE <<>>

\* A step of generateBundle that ends without an exception.
FinalizeStep == runs' = runs + 1 /\ ~threw'

\* The statements of the chunks generateBundle rewrites: (file, index).
RewrittenPositions ==
    UNION {{<<n, i>> : i \in 1..Len(bundle.files[n].code)} :
              n \in {m \in DOMAIN bundle.files :
                        ~skipped(bundle.files[m]) /\ parses(bundle.files[m].code)}}

\* The sites of the chunks generateBundle rewrites in this step whose recovered
\* target is a string T naming a chunk with static imports: (file, index).
ResolvedSites ==
    {p \in RewrittenPositions :
        LET stmt == bundle.files[p[1]].code[p[2]]
        IN /\ IsSite(stmt)
           /\ importChunkNameOf(stmt.children[1]).t = "string"
           /\ importChunkNameOf(stmt.children[1]).v # <<>>
           /\ TargetImports(importChunkNameOf(stmt.children[1]).v, bundle) # <<>>}

\* C2 (as amended): a rewritten site with recovered target T whose chunk has
\* static imports d1..dn becomes the call with the arguments "T" and then,
\* in graph order and without deduplication, "./d1" .. "./dn", each di
\* without its last three characters when T (less a leading './') does not
\* end in '.js' and the method is 'import'.
C2_DepsWrittenWithPrefix ==
    [][FinalizeStep =>
         \A p \in ResolvedSites :
            LET T == importChunkNameOf(bundle.files[p[1]].code[p[2]].children[1]).v
                ds == TargetImports(T, bundle)
                extless == ~endsWith(T, DotJs)
                strip == extless /\ options.method = JSString(<<"import">>)
            IN bundle'.files[p[1]].code[p[2]] =
                 CallExpression(
                   <<Literal(JSString(T), "dq")>>
                   \o [i \in 1..Len(ds) |->
                         Literal(JSString(DotSlash \o (IF strip
                                                       THEN SubSeq(ds[i], 1, Len(ds[i]) - 3)
                                                       ELSE ds[i])), "dq")])]_vars

\* C2 (as claimed): the arguments are "T" and then "d1" .. "dn", each
\* identifier exactly as it appears in the graph.
C2_DepsAsInGraph ==
    [][FinalizeStep =>
         \A p \in ResolvedSites :
            LET T == importChunkNameOf(bundle.files[p[1]].code[p[2]].children[1]).v
                ds == TargetImports(T, bundle)
            IN bundle'.files[p[1]].code[p[2]] =
                 CallExpression(
                   <<Literal(JSString(T), "dq")>>
                   \o [i \in 1..Len(ds) |-> Literal(JSString(ds[i]), "dq")])]_vars

\* C2's case: after a run, a.js holds the call ("./b.js", "./c.js", "./d.js")
\* for target b.js with the imports c.js, d.js.
C2_Witness ==
    /\ runs = 1 /\ ~threw
    /\ bundle.files[B_JS].imports = <<C_JS, D_JS>>
    /\ \E i \in 1..Len(bundle.files[A_JS].code) :
          bundle.files[A_JS].code[i] =
             CallExpression(<<Literal(JSString(DotSlash \o B_JS), "dq"),
                              Literal(JSString(DotSlash \o C_JS), "dq"),
                              Literal(JSString(DotSlash \o D_JS), "dq")>>)

\* C3 (as amended): for an identifier X that does not begin with './',
\* getDeps answers the same for X and './X'; for X = stem + '.js' (stem not
\* itself ending in '.js') it answers the same for stem when the method is
\* not 'import', and with the method 'import' it answers for stem the same
\* dependencies in the same order, each without its last three characters.
C3_EquivalentForms ==
    (answer.done /\ ~startsWith(query, DotSlash)) =>
        /\ answer.prefixed = answer.plain
        /\ (endsWith(query, DotJs) /\ ~endsWith(withoutJs(query), DotJs)) =>
              IF options.method # JSString(<<"import">>)
              THEN answer.extless = answer.plain
              ELSE answer.extless =
                     [i \in 1..Len(answer.plain) |->
                         SubSeq(answer.plain[i], 1, Len(answer.plain[i]) - 3)]

\* C3 (as claimed): getDeps answers the same for X, './X' and X without '.js'.
C3_SameForAllForms ==
    answer.done => answer.prefixed = answer.plain /\ answer.extless = answer.plain

\* C3's case: b.js has static imports and the method is 'import', so the
\* answer for 'b' differs from the answer for 'b.js'.
C3_Witness ==
    /\ answer.done
    /\ query = B_JS
    /\ options.method = JSString(<<"import">>)
    /\ answer.plain = <<DotSlash \o C_JS, DotSlash \o D_JS>>
    /\ answer.extless = <<DotSlash \o <<"c">>, DotSlash \o <<"d">>>>

\* C4: a second run of generateBundle over a bundle a first run has finalized
\* leaves every chunk's code as it was.
C4_SecondRunChangesNothing ==
    [][(runs >= 1 /\ runs' = runs + 1) => bundle' = bundle]_vars

\* C5: generateBundle never ends with an exception.
C5_GenerateBundleNeverThrows == ~threw

\* One request at most, sent or scheduled, per identifier.
AtMostOneRequestPerDep ==
    LET keys == [i \in 1..Len(requests) |-> requests[i].key] \o idle
    IN /\ \A i, j \in 1..Len(keys) : keys[i] = keys[j] => i = j
       /\ \A i \in 1..Len(keys) : keys[i] \in seen

\* Nothing is pending: no idle callback, no request without an outcome.
Quiescent ==
    idle = <<>> /\ \A i \in 1..Len(requests) : requests[i].state # "pending"

\* C6 (as amended): a call in preload mode performs import(baseImport) and
\* returns its promise; a call in prefetch mode performs no module load: it
\* returns the promise of preloadOrPrefetch(baseImport, 'prefetch'), which
\* stands for at most one resource request for baseImport and never carries
\* the module.
C6_BaseLoadByMode ==
    \A i \in 1..Len(calls) :
       IF env.browser /\ calls[i].hoistPrefetch
       THEN /\ calls[i].promise.kind \in {"resolved", "request"}
            /\ calls[i].promise.key = calls[i].base
            /\ calls[i].base \in seen
       ELSE calls[i].promise = [kind |-> "import", key |-> calls[i].base]

\* C6 (as claimed): once nothing is pending, every call has performed the
\* module load of its base target and returned that load's promise.
C6_AlwaysLoadsModule ==
    Quiescent =>
       \A i \in 1..Len(calls) :
          calls[i].promise = [kind |-> "import", key |-> calls[i].base]

\* C6's case: a preload call and a prefetch call have both been made, the
\* second for a base target already in the seen-set.
C6_Witness ==
    /\ Len(calls) = 2
    /\ calls[1].promise.kind = "import"
    /\ calls[1].deps # <<>>
    /\ calls[2].hoistPrefetch
    /\ calls[2].promise.kind = "resolved"

\* C7: over any sequence of calls at most one resource request is issued per
\* dependency identifier, and the seen-set only grows.
C7_OneRequestPerDep ==
    [][seen \subseteq seen' /\ AtMostOneRequestPerDep']_vars

\* C7's case: a dependency whose request had failed is passed again by a
\* later call, and there is still the one request for it.
C7_Witness ==
    \E i \in 1..Len(calls) :
       \E k \in 1..Len(calls[i].deps) :
          /\ withJs(calls[i].deps[k]) \in calls[i].failedBefore
          /\ Count([j \in 1..Len(requests) |-> requests[j].key],
                   withJs(calls[i].deps[k])) = 1

\* The sites of the rewritten chunks whose first argument is a runtime-wrapped
\* load with literals inside, the last of them a non-empty string.
WrappedSites ==
    {p \in RewrittenPositions :
        LET stmt == bundle.files[p[1]].code[p[2]]
        IN /\ IsSite(stmt)
           /\ stmt.children[1].type = "Wrapped"
           /\ stmt.children[1].lits # <<>>
           /\ truthy(stmt.children[1].lits[Len(stmt.children[1].lits)].value)}

\* C8 (as amended): for a runtime-wrapped first argument, the recovered
\* load-target identifier (written back as the call's first argument) is the
\* value of the last Literal node met in traversal order inside it.
C8_LastLiteralIsTarget ==
    [][FinalizeStep =>
         \A p \in WrappedSites :
            LET lits == bundle.files[p[1]].code[p[2]].children[1].lits
            IN Head(bundle'.files[p[1]].code[p[2]].children) =
                  Literal(JSString(lits[Len(lits)].value.v), "dq")]_vars

\* C8 (as claimed): it is the value of the first Literal node met.
C8_FirstLiteralIsTarget ==
    [][FinalizeStep =>
         \A p \in WrappedSites :
            LET lits == bundle.files[p[1]].code[p[2]].children[1].lits
            IN Head(bundle'.files[p[1]].code[p[2]].children) =
                  Literal(JSString(lits[1].value.v), "dq")]_vars

\* C8's case: the wrapped load with the literals './e' and './d' has been
\* finalized, and the call's first argument is now "./d".
C8_Witness ==
    /\ runs >= 1 /\ ~threw
    /\ \E i \in 1..Len(bundle.files[A_JS].code) :
          /\ bundle.files[A_JS].code[i].type = "CallExpression"
          /\ Head(bundle.files[A_JS].code[i].children) =
                Literal(JSString(DotSlash \o <<"d">>), "dq")

\* C9: a string baseUrl is stored without a leading and without a trailing
\* '/'; any other baseUrl is stored as null, and the template then has no
\* URL rewrite.
C9_BaseUrlHasNoSlashAtEitherEnd ==
    ctor = "ok" =>
       IF optionsIn.baseUrl.t = "string"
       THEN /\ ~startsWith(options.baseUrl.v, <<"/">>)
            /\ ~endsWith(options.baseUrl.v, <<"/">>)
       ELSE /\ options.baseUrl = JSNull
            /\ ~loaded.result.rewrite

\* C10: the template has the crossOrigin attribute when the caller passes
\* setAnonymousCrossOrigin true or omits it, and has none when the caller
\* passes false.
C10_CrossOriginFollowsOption ==
    (ctor = "ok" /\ ~loaded.result.isNull) =>
       (loaded.result.crossOrigin <=> optionsIn.setAnonymousCrossOrigin # JSFalse)
====
